---- MODULE Spec2Model ----
(***************************************************************************)
(* Package selection of cargo-show-asm (src/opts.rs): Focus::matches, the  *)
(* Display rendering of Focus, and select_package, which maps the command  *)
(* line options and the cargo workspace to one package name or ends the    *)
(* process with a diagnostic on stderr and exit code 1.                    *)
(*                                                                         *)
(* Option<T> values are sequences of length at most one: <<>> is None and  *)
(* <<v>> is Some(v).  A line of stderr is a string.                        *)
(***************************************************************************)
EXTENDS Naturals, Sequences, FiniteSets, TLC

VARIABLES ws, opts, pc, package, ret, stderr, exit_code

vars == <<ws, opts, pc, package, ret, stderr, exit_code>>

(***************************************************************************)
(* Bounds of the explored inputs.                                          *)
(***************************************************************************)
\* members of a virtual workspace
MaxMembers == 3
\* targets in the whole workspace (every package owns at least one)
MaxTargets == 3

None == <<>>
Some(v) == <<v>>

\* Package names by discovery position, and a name no member carries.
NamePool == <<"a", "b", "c", "d", "e">>
UnknownPackage == "zz"
\* Options::manifest_path (opts.rs:24), printed with {:?} at opts.rs:226
ManifestPath == "/ws/Cargo.toml"
\* Target names in the manifests: every named kind has a target "x" to
\* offer, tests also a second one, "y".  A --test/--bench/...
\* flag carries either name.
TargetNames == {"x", "y"}
TwiceNamed == {"Test"}
FocusNames == TargetNames

(***************************************************************************)
(* cargo::core::TargetKind as used at opts.rs:249-256.  The payload of     *)
(* Lib(_) and ExampleLib(_) (the crate types) is never read by this file.  *)
(***************************************************************************)
TargetKind == {"Lib", "Bin", "Test", "Bench", "ExampleBin", "ExampleLib", "CustomBuild"}

\* A Lib target and a build script carry names cargo derives; opts.rs never
\* prints or compares them.
Targets ==
    {[kind |-> "Lib", name |-> "lib"], [kind |-> "CustomBuild", name |-> "build-script-build"]}
    \cup [kind : {"Bin", "Test", "Bench", "ExampleBin", "ExampleLib"}, name : {"x"}]
    \cup [kind : TwiceNamed, name : TargetNames]

\* enum Focus (opts.rs:122-149)
Focus ==
    {[variant |-> "Lib", name |-> ""]}
    \cup [variant : {"Test", "Bench", "Example", "Bin"}, name : FocusNames]

(***************************************************************************)
(* The predicates of cargo's Target that Focus::matches calls.  is_example *)
(* is cargo's: an example is an ExampleBin or an ExampleLib target.        *)
(***************************************************************************)
is_lib(target) == target.kind = "Lib"
is_test(target) == target.kind = "Test"
is_bench(target) == target.kind = "Bench"
is_example(target) == target.kind \in {"ExampleBin", "ExampleLib"}
is_bin(target) == target.kind = "Bin"

\* A variant of matches that compares the kind and forgets the name.
matches_KindOnly(focus, target) ==
    CASE focus.variant = "Lib" -> is_lib(target)
      [] focus.variant = "Test" -> is_test(target)
      [] focus.variant = "Bench" -> is_bench(target)
      [] focus.variant = "Example" -> is_example(target)
      [] focus.variant = "Bin" -> is_bin(target)

\* Focus::matches (opts.rs:185-193)
matches(focus, target) ==
    CASE focus.variant = "Lib" -> is_lib(target)
      [] focus.variant = "Test" -> is_test(target) /\ target.name = focus.name
      [] focus.variant = "Bench" -> is_bench(target) /\ target.name = focus.name
      [] focus.variant = "Example" -> is_example(target) /\ target.name = focus.name
      [] focus.variant = "Bin" -> is_bin(target) /\ target.name = focus.name

\* impl Display for Focus (opts.rs:171-181)
FocusDisplay(focus) ==
    CASE focus.variant = "Lib" -> "--lib"
      [] focus.variant = "Test" -> "--test " \o focus.name
      [] focus.variant = "Bench" -> "--bench " \o focus.name
      [] focus.variant = "Example" -> "--example " \o focus.name
      [] focus.variant = "Bin" -> "--bin " \o focus.name

(***************************************************************************)
(* The workspaces cargo hands to select_package.  cargo rejects a manifest *)
(* with two targets of one section under one name (examples of either      *)
(* crate type share the [[example]] section), with more than one [lib] or  *)
(* build script, or with no target at all, and a workspace with two        *)
(* members of one name.                                                    *)
(***************************************************************************)
SectionOf(target) == IF is_example(target) THEN "Example" ELSE target.kind

ValidTargets(ts) ==
    \A i, j \in 1..Len(ts) :
        i # j => ~(SectionOf(ts[i]) = SectionOf(ts[j]) /\ ts[i].name = ts[j].name)

TargetLists(n) == {ts \in [1..n -> Targets] : ValidTargets(ts)}

\* Ways to give m packages at least one target each, at most total together.
RECURSIVE Shares(_, _)
Shares(m, total) ==
    IF m = 0 THEN {<<>>}
    ELSE UNION {{<<n>> \o rest : rest \in Shares(m - 1, total - n)} :
                   n \in 1..(IF total >= m THEN total - m + 1 ELSE 0)}

RECURSIVE PackageLists(_, _)
PackageLists(share, first) ==
    IF share = <<>> THEN {<<>>}
    ELSE {<<[name |-> NamePool[first], targets |-> ts]>> \o rest :
             ts \in TargetLists(Head(share)),
             rest \in PackageLists(Tail(share), first + 1)}

\* MaybePackage::Package(p): only the root package is read (opts.rs:198).
ConcreteWorkspace(ps) == [root |-> Some(ps[1]), members |-> ps]
\* MaybePackage::Virtual(_): no root package, the members in discovery order.
VirtualWorkspace(ps) == [root |-> None, members |-> ps]

PackageNames == {NamePool[i] : i \in 1..MaxMembers}

\* The two fields of Options that select_package reads (opts.rs:30, 32).
Selectors ==
    [package : {None} \cup {Some(n) : n \in PackageNames \cup {UnknownPackage}},
     focus : {None} \cup {Some(f) : f \in Focus}]

(***************************************************************************)
(* Helpers of select_package.                                              *)
(***************************************************************************)
\* The inner loop, opts.rs:203-207: one push of the package name per
\* matching target.
RECURSIVE MatchingPushes(_, _, _)
MatchingPushes(focus, name, targets) ==
    IF targets = <<>> THEN <<>>
    ELSE (IF matches(focus, Head(targets)) THEN <<name>> ELSE <<>>)
         \o MatchingPushes(focus, name, Tail(targets))

\* A variant of Candidates that leaves the scan after the first member.
Candidates_FirstMemberOnly(focus, members) ==
    IF members = <<>> THEN <<>>
    ELSE MatchingPushes(focus, Head(members).name, Head(members).targets)

\* A variant of Candidates that inserts each candidate at the front.
RECURSIVE Candidates_Prepending(_, _)
Candidates_Prepending(focus, members) ==
    IF members = <<>> THEN <<>>
    ELSE Candidates_Prepending(focus, Tail(members))
         \o MatchingPushes(focus, Head(members).name, Head(members).targets)

\* The outer loop, opts.rs:201-208.
RECURSIVE Candidates(_, _)
Candidates(focus, members) ==
    IF members = <<>> THEN <<>>
    ELSE MatchingPushes(focus, Head(members).name, Head(members).targets)
         \o Candidates(focus, Tail(members))

\* A variant of FindMember that falls back to the first member.
FindMember_OrFirst(members, p) ==
    IF \E i \in 1..Len(members) : members[i].name = p
    THEN Some(members[CHOOSE i \in 1..Len(members) : members[i].name = p])
    ELSE IF members = <<>> THEN None ELSE Some(Head(members))

\* ws.members().find(|package| package.name().as_str() == p), opts.rs:234
RECURSIVE FindMember(_, _)
FindMember(members, p) ==
    IF members = <<>> THEN None
    ELSE IF Head(members).name = p THEN Some(Head(members))
    ELSE FindMember(Tail(members), p)

\* Variants of TargetAmbiguous: an off-by-one target count, and the focus
\* test left out.
TargetAmbiguous_AtLeastOne(p, focus) == Len(p.targets) >= 1 /\ focus = None
TargetAmbiguous_IgnoresFocus(p, focus) == Len(p.targets) > 1

\* The condition of opts.rs:243.
TargetAmbiguous(p, focus) == Len(p.targets) > 1 /\ focus = None

\* A variant of TargetListing that also lists the ExampleLib targets.
RECURSIVE TargetListing_ListsExampleLib(_)
TargetListing_ListsExampleLib(targets) ==
    IF targets = <<>> THEN <<>>
    ELSE LET t == Head(targets)
             line == CASE t.kind = "Lib" -> <<"--lib">>
                       [] t.kind = "Bin" -> <<"--bin " \o t.name>>
                       [] t.kind = "Test" -> <<"--test " \o t.name>>
                       [] t.kind = "Bench" -> <<"--bench " \o t.name>>
                       [] t.kind \in {"ExampleBin", "ExampleLib"} -> <<"--example " \o t.name>>
                       [] t.kind = "CustomBuild" -> <<>>
         IN line \o TargetListing_ListsExampleLib(Tail(targets))

\* One line per listed target, opts.rs:248-258; the description and the
\* source path that end the line are cargo's and are left out.
RECURSIVE TargetListing(_)
TargetListing(targets) ==
    IF targets = <<>> THEN <<>>
    ELSE LET t == Head(targets)
             line == CASE t.kind = "Lib" -> <<"--lib">>
                       [] t.kind = "Bin" -> <<"--bin " \o t.name>>
                       [] t.kind = "Test" -> <<"--test " \o t.name>>
                       [] t.kind = "Bench" -> <<"--bench " \o t.name>>
                       [] t.kind = "ExampleBin" -> <<"--example " \o t.name>>
                       [] t.kind \in {"ExampleLib", "CustomBuild"} -> <<>>
         IN line \o TargetListing(Tail(targets))

\* "\t-p {name}" for each name, opts.rs:219-221 and 227-229
RECURSIVE PackageSuggestions(_)
PackageSuggestions(names) ==
    IF names = <<>> THEN <<>>
    ELSE <<"\t-p " \o Head(names)>> \o PackageSuggestions(Tail(names))

\* A variant of MemberNames that misses the last member.
MemberNames_MissesLast(members) == [i \in 1..(Len(members) - 1) |-> members[i].name]

\* for package in ws.members() ... package.name(), opts.rs:227-228
MemberNames(members) == [i \in 1..Len(members) |-> members[i].name]

(***************************************************************************)
(* State machine: one invocation of select_package.                        *)
(***************************************************************************)
Init ==
    /\ \E m \in 1..MaxMembers : \E share \in Shares(m, MaxTargets) :
           \E ps \in PackageLists(share, 1) :
               \/ ws = VirtualWorkspace(ps)
               \/ m = 1 /\ ws = ConcreteWorkspace(ps)
    /\ opts \in Selectors
    /\ pc = "select"
    /\ package = None
    /\ ret = None
    /\ stderr = <<>>
    /\ exit_code = None

\* A variant of Exit that ends the process with exit code 0.
Exit_CodeZero(lines) ==
    /\ stderr' = stderr \o lines
    /\ exit_code' = Some(0)
    /\ pc' = "exited"
    /\ UNCHANGED <<ws, opts, package, ret>>

\* eprintln! of the lines, then std::process::exit(1)
Exit(lines) ==
    /\ stderr' = stderr \o lines
    /\ exit_code' = Some(1)
    /\ pc' = "exited"
    /\ UNCHANGED <<ws, opts, package, ret>>

Return(name) ==
    /\ ret' = Some(name)
    /\ pc' = "returned"
    /\ UNCHANGED <<ws, opts, package, stderr, exit_code>>

\* A variant of RootPackage that looks the hint up first, as the arm for
\* virtual workspaces does.
RootPackage_HonoursHint ==
    /\ pc = "select"
    /\ ws.root # None
    /\ IF opts.package # None /\ FindMember(ws.members, opts.package[1]) = None
       THEN Return(opts.package[1])
       ELSE /\ package' = ws.root
            /\ pc' = "targets"
            /\ UNCHANGED <<ws, opts, ret, stderr, exit_code>>

\* (MaybePackage::Package(p), _) => p, opts.rs:198
RootPackage ==
    /\ pc = "select"
    /\ ws.root # None
    /\ package' = ws.root
    /\ pc' = "targets"
    /\ UNCHANGED <<ws, opts, ret, stderr, exit_code>>

\* (MaybePackage::Virtual(_), None) with a focus, opts.rs:200-224
VirtualFocus ==
    /\ pc = "select"
    /\ ws.root = None
    /\ opts.package = None
    /\ opts.focus # None
    /\ LET focus == opts.focus[1]
           candidates == Candidates(focus, ws.members)
       IN CASE Len(candidates) = 0 ->
                 Exit(<<"Target specification " \o FocusDisplay(focus)
                        \o " didn't match any packages">>)
            [] Len(candidates) = 1 -> Return(candidates[1])
            [] OTHER ->
                 Exit(<<"There's multiple targets that match " \o FocusDisplay(focus)
                        \o ". Try narrowing the focus by specifying one of those packages:">>
                      \o PackageSuggestions(candidates))

\* (MaybePackage::Virtual(_), None) without a focus, opts.rs:225-231
VirtualNoSelector ==
    /\ pc = "select"
    /\ ws.root = None
    /\ opts.package = None
    /\ opts.focus = None
    /\ Exit(<<"\"" \o ManifestPath
            \o "\" defines a virtual workspace package, you need to specify which member to use with -p xxxx">>
            \o PackageSuggestions(MemberNames(ws.members)))

\* (MaybePackage::Virtual(_), Some(p)), opts.rs:233-240
VirtualPackage ==
    /\ pc = "select"
    /\ ws.root = None
    /\ opts.package # None
    /\ LET p == opts.package[1]
           found == FindMember(ws.members, p)
       IN IF found # None
          THEN /\ package' = found
               /\ pc' = "targets"
               /\ UNCHANGED <<ws, opts, ret, stderr, exit_code>>
          ELSE Return(p)

\* opts.rs:243-262
CheckTargets ==
    /\ pc = "targets"
    /\ LET p == package[1]
       IN IF TargetAmbiguous(p, opts.focus)
          THEN Exit(<<p.name \o " defines multiple targets, you need to specify which one to use:">>
                    \o TargetListing(p.targets))
          ELSE Return(p.name)

Next ==
    \/ RootPackage
    \/ VirtualFocus
    \/ VirtualNoSelector
    \/ VirtualPackage
    \/ CheckTargets

Spec == Init /\ [][Next]_vars

(***************************************************************************)
(* Vocabulary of the properties, stated apart from the definitions above.  *)
(***************************************************************************)
Concrete == ws.root # None
Virtual == ws.root = None
Done == pc \in {"returned", "exited"}

\* select_package returned n: nothing was written and the process goes on.
ReturnedName(n) == pc = "returned" /\ ret = Some(n) /\ stderr = <<>> /\ exit_code = None
\* select_package wrote a diagnostic and ended the process with code 1.
Failed == pc = "exited" /\ ret = None /\ stderr # <<>> /\ exit_code = Some(1)

\* The target kinds a focus variant stands for: one kind each, except that
\* an example is a target of kind ExampleBin or ExampleLib.
FocusKinds(variant) ==
    CASE variant = "Lib" -> {"Lib"}
      [] variant = "Test" -> {"Test"}
      [] variant = "Bench" -> {"Bench"}
      [] variant = "Example" -> {"ExampleBin", "ExampleLib"}
      [] variant = "Bin" -> {"Bin"}

Satisfies(focus, target) ==
    /\ target.kind \in FocusKinds(focus.variant)
    /\ focus.variant # "Lib" => target.name = focus.name

\* One kind per variant: Example stands for kind ExampleBin alone.
SatisfiesExactKind(focus, target) ==
    /\ target.kind \in FocusKinds(focus.variant) \ {"ExampleLib"}
    /\ focus.variant # "Lib" => target.name = focus.name

OwnsMatch(p, focus) == \E j \in 1..Len(p.targets) : Satisfies(focus, p.targets[j])

\* The members that own a target the focus selects, in discovery order.
MatchingPackages(focus) ==
    LET Owns(p) == OwnsMatch(p, focus) IN SelectSeq(ws.members, Owns)

AllTargets == UNION {{ws.members[i].targets[j] : j \in 1..Len(ws.members[i].targets)} :
                        i \in 1..Len(ws.members)}

NoHintButFocus == Virtual /\ opts.package = None /\ opts.focus # None

HintNamesMember ==
    /\ Virtual
    /\ opts.package # None
    /\ \E i \in 1..Len(ws.members) : ws.members[i].name = opts.package[1]

HintNamesNoMember ==
    /\ Virtual
    /\ opts.package # None
    /\ \A i \in 1..Len(ws.members) : ws.members[i].name # opts.package[1]

\* The flag that selects a target, for the kinds that have one.
FlagOf(t) ==
    CASE t.kind = "Lib" -> "--lib"
      [] t.kind = "Bin" -> "--bin " \o t.name
      [] t.kind = "Test" -> "--test " \o t.name
      [] t.kind = "Bench" -> "--bench " \o t.name
      [] t.kind = "ExampleBin" -> "--example " \o t.name

ExpectedListing(targets) ==
    LET Listed(t) == t.kind \notin {"ExampleLib", "CustomBuild"}
        sel == SelectSeq(targets, Listed)
    IN [i \in 1..Len(sel) |-> FlagOf(sel[i])]

(***************************************************************************)
(* Properties.                                                             *)
(***************************************************************************)

\* C1 as stated: in a concrete workspace select_package returns the root
\* package's name whatever the hint, the focus and the number of targets of
\* the root package.
C1_RootAlwaysReturned ==
    Concrete /\ Done => ReturnedName(ws.root[1].name)

\* C1, amended: in a concrete workspace select_package returns the root
\* package's name whatever the hint, unless the root package owns two or
\* more targets and no focus is given; then it fails with a diagnostic.
C1_RootReturnedUnlessTargetAmbiguous ==
    Concrete /\ Done =>
        IF Len(ws.root[1].targets) > 1 /\ opts.focus = None
        THEN Failed
        ELSE ReturnedName(ws.root[1].name)

C1_Witness ==
    /\ Concrete
    /\ pc = "returned"
    /\ Len(ws.root[1].targets) >= 2
    /\ opts.package = Some(UnknownPackage)
    /\ opts.focus # None
    /\ ~OwnsMatch(ws.root[1], opts.focus[1])

C3_AmbiguousFocusListsMatches ==
    NoHintButFocus /\ Done /\ Len(MatchingPackages(opts.focus[1])) >= 2 =>
        /\ Failed
        /\ Tail(stderr) = [i \in 1..Len(MatchingPackages(opts.focus[1])) |->
                              "\t-p " \o MatchingPackages(opts.focus[1])[i].name]

C3_Witness ==
    /\ NoHintButFocus
    /\ pc = "exited"
    /\ Len(ws.members) = 3
    /\ Len(MatchingPackages(opts.focus[1])) = 2
    /\ ~OwnsMatch(ws.members[2], opts.focus[1])

\* C4: in a virtual workspace, with no hint and no focus, select_package
\* never returns a name; it fails, and after the heading it prints one -p
\* line per member, every member once.
C4_NoSelectorListsMembers ==
    Virtual /\ opts.package = None /\ opts.focus = None =>
        /\ pc \in {"select", "exited"}
        /\ ret = None
        /\ pc = "exited" =>
              /\ Failed
              /\ Len(stderr) = 1 + Len(ws.members)
              /\ \A i \in 1..Len(ws.members) :
                     Cardinality({k \in 2..Len(stderr) :
                                    stderr[k] = "\t-p " \o ws.members[i].name}) = 1

C4_Witness ==
    /\ Virtual
    /\ opts.package = None
    /\ opts.focus = None
    /\ pc = "exited"
    /\ Len(ws.members) >= 2

\* C5: a package resolved as the root or through the hint that owns
\* exactly one target is never reported as defining multiple targets, with
\* or without a focus: its name is returned.
C5_SingleTargetNeverAmbiguous ==
    package # None /\ Len(package[1].targets) = 1 =>
        /\ pc # "exited"
        /\ stderr = <<>>
        /\ Done => ReturnedName(package[1].name)

C5_Witness ==
    /\ Virtual
    /\ package # None
    /\ Len(package[1].targets) = 1
    /\ opts.focus = None
    /\ pc = "returned"

\* C6: a package resolved as the root or through the hint that owns two or
\* more targets, with no focus given, makes select_package fail; after the
\* heading the diagnostic lists, in target order, the flag of every target
\* of kind Lib, Bin, Test, Bench or ExampleBin and nothing for the targets
\* of kind ExampleLib or CustomBuild.
C6_TargetAmbiguousListsTargets ==
    package # None /\ Len(package[1].targets) >= 2 /\ opts.focus = None /\ Done =>
        /\ Failed
        /\ Tail(stderr) = ExpectedListing(package[1].targets)

C6_Witness ==
    /\ pc = "exited"
    /\ package # None
    /\ opts.focus = None
    /\ Len(package[1].targets) = 3
    /\ \E j \in 1..3 : package[1].targets[j].kind = "ExampleLib"
    /\ Len(stderr) = 3

\* C7: in a virtual workspace a hint that names no member is returned
\* unchanged, whatever the focus; no package is resolved, no diagnostic is
\* written and the target check is never reached.
C7_UnknownHintForwarded ==
    HintNamesNoMember =>
        /\ pc \in {"select", "returned"}
        /\ package = None
        /\ pc = "returned" => ReturnedName(opts.package[1])

C7_Witness ==
    /\ HintNamesNoMember
    /\ pc = "returned"
    /\ opts.focus = None
    /\ Len(ws.members[1].targets) >= 2

C9_ReturnOrExit ==
    /\ pc \in {"select", "targets"} =>
           ret = None /\ stderr = <<>> /\ exit_code = None /\ ENABLED Next
    /\ pc = "returned" =>
           Len(ret) = 1 /\ stderr = <<>> /\ exit_code = None /\ ~ENABLED Next
    /\ pc = "exited" => Failed /\ ~ENABLED Next
    /\ pc \in {"select", "targets", "returned", "exited"}
    /\ Done =>
           /\ Virtual /\ opts.package = None /\ opts.focus = None => Failed
           /\ NoHintButFocus /\ Len(MatchingPackages(opts.focus[1])) # 1 => Failed
           /\ package # None /\ Len(package[1].targets) > 1 /\ opts.focus = None => Failed

C9_Witness ==
    /\ pc = "exited"
    /\ NoHintButFocus
    /\ Len(MatchingPackages(opts.focus[1])) = 0
    /\ Len(ws.members) >= 2

\* C10: in a virtual workspace a hint that names a member, given together
\* with a focus, makes select_package return that member's name, also when
\* the focus selects none of its targets.
C10_HintWinsOverFocus ==
    HintNamesMember /\ opts.focus # None /\ Done => ReturnedName(opts.package[1])

C10_Witness ==
    /\ HintNamesMember
    /\ opts.focus # None
    /\ pc = "returned"
    /\ Len(package[1].targets) >= 2
    /\ ~OwnsMatch(package[1], opts.focus[1])
    /\ Len(MatchingPackages(opts.focus[1])) = 1

====
